---- MODULE Spec2Model ----
(***************************************************************************)
(* Model of src/taskSchedular.cpp: class Scheduler (constructor,           *)
(* schedule, wait), the detached job thread that schedule() spawns, and    *)
(* the job list of main().                                                 *)
(*                                                                         *)
(* Threads are the caller threads (which call schedule() and wait()) and  *)
(* one job thread per admitted job.  Each labelled step of a thread is an  *)
(* action.  countJobs is written by the job thread without the mutex, so   *)
(* its ++ and -- are modelled as a load followed by a store.               *)
(*                                                                         *)
(* countJobs is a size_t.  The model keeps the representative of its       *)
(* value modulo 2^64 that lies nearest to zero: a negative value v stands  *)
(* for the wrapped value 2^64 + v, and the unsigned comparisons of the     *)
(* code are the operators ULess and UIsZero below.                         *)
(***************************************************************************)
EXTENDS Integers, FiniteSets, Sequences, TLC

\* ---- bounds --------------------------------------------------------------
MaxCapacity == 2
MaxJobs == 4
NumCallers == 2

Callers == 1..NumCallers
JobIds == 1..MaxJobs
Capacities == 0..MaxCapacity

\* ---- thread identities ---------------------------------------------------
NoThread == <<"none", 0>>
CallerThread(c) == <<"caller", c>>
JobThread(j) == <<"job", j>>

\* ---- the jobs of main(): what each operation does when it is run ---------
\* job 1 prints; job 2 throws "err" (a const char*, not a std::exception);
\* job 3 throws std::out_of_range; jobs 4 and 5 print.
MainJobs == <<"ok", "unknown", "exception", "ok", "ok">>

Outcome(j) == MainJobs[((j - 1) % Len(MainJobs)) + 1]

VARIABLES
  phase,           \* "constructing" | "alive" | "failed" (constructor threw)
                   \* | "terminated" (an exception left a thread)
  maxJobsAllowed,  \* Scheduler::maxJobsAllowed
  error,           \* Scheduler::error: "null" | "sink"
  countJobs,       \* Scheduler::countJobs
  mutex,           \* Scheduler::mutex: the thread that owns it, or NoThread
  condition,       \* Scheduler::condition: the callers blocked on it
  cpc,             \* position of each caller thread
  cjob,            \* the job a caller is submitting (0: none)
  creg,            \* the value a caller loaded for countJobs++
  jpc,             \* position of each job thread
  jreg,            \* the value a job thread loaded for countJobs--
  sinkCalls,       \* number of calls of error() made by each job thread
  runs,            \* number of times each job thread entered (*job)()
  nextJob,         \* the id of the job the next schedule() call submits
  waitReturned     \* wait() has returned while no schedule() call was in
                   \* progress, and schedule() has not been called since

vars == <<phase, maxJobsAllowed, error, countJobs, mutex, condition, cpc, cjob,
          creg, jpc, jreg, sinkCalls, runs, nextJob, waitReturned>>

schedulerVars == <<phase, maxJobsAllowed, error>>

\* ---- unsigned comparisons on size_t --------------------------------------
ULess(a, b) ==
  \/ a >= 0 /\ b >= 0 /\ a < b
  \/ a >= 0 /\ b < 0
  \/ a < 0 /\ b < 0 /\ a < b

UIsZero(a) == a = 0

\* ---- predicates of the two condition waits -------------------------------
\* admission written with <= in place of <
AdmitPredicate_OffByOne == ~ULess(maxJobsAllowed, countJobs)

AdmitPredicate == ULess(countJobs, maxJobsAllowed)

WaitPredicate == UIsZero(countJobs)

Init ==
  /\ phase = "constructing"
  /\ maxJobsAllowed \in Capacities
  /\ error \in {"null", "sink"}
  /\ countJobs = 0
  /\ mutex = NoThread
  /\ condition = {}
  /\ cpc = [c \in Callers |-> "idle"]
  /\ cjob = [c \in Callers |-> 0]
  /\ creg = [c \in Callers |-> 0]
  /\ jpc = [j \in JobIds |-> "unborn"]
  /\ jreg = [j \in JobIds |-> 0]
  /\ sinkCalls = [j \in JobIds |-> 0]
  /\ runs = [j \in JobIds |-> 0]
  /\ nextJob = 1
  /\ waitReturned = FALSE

\* ---- Scheduler::Scheduler ------------------------------------------------
\* the constructor without its null check
Construct_NoNullCheck ==
  /\ phase = "constructing"
  /\ phase' = "alive"
  /\ UNCHANGED <<maxJobsAllowed, error, countJobs, mutex, condition, cpc, cjob,
                 creg, jpc, jreg, sinkCalls, nextJob, waitReturned, runs>>

Construct ==
  /\ phase = "constructing"
  /\ phase' = IF error = "null" THEN "failed" ELSE "alive"
  /\ UNCHANGED <<maxJobsAllowed, error, countJobs, mutex, condition, cpc, cjob,
                 creg, jpc, jreg, sinkCalls, nextJob, waitReturned, runs>>

\* ---- Scheduler::schedule -------------------------------------------------
ScheduleCall(c) ==
  /\ phase = "alive"
  /\ cpc[c] = "idle"
  /\ nextJob <= MaxJobs
  /\ cpc' = [cpc EXCEPT ![c] = "s_lock"]
  /\ cjob' = [cjob EXCEPT ![c] = nextJob]
  /\ nextJob' = nextJob + 1
  /\ waitReturned' = FALSE
  /\ UNCHANGED <<schedulerVars, countJobs, mutex, condition, creg, jpc, jreg,
                 sinkCalls, runs>>

\* unique_lock constructor, and the re-acquisition after a wakeup
ScheduleLock(c) ==
  /\ cpc[c] = "s_lock"
  /\ mutex = NoThread
  /\ mutex' = CallerThread(c)
  /\ cpc' = [cpc EXCEPT ![c] = "s_check"]
  /\ UNCHANGED <<schedulerVars, countJobs, condition, cjob, creg, jpc, jreg,
                 sinkCalls, nextJob, waitReturned, runs>>

\* condition.wait(lock, pred): evaluate pred; if false, unlock and block
ScheduleCheck(c) ==
  /\ cpc[c] = "s_check"
  /\ IF AdmitPredicate
       THEN /\ cpc' = [cpc EXCEPT ![c] = "s_incRead"]
            /\ UNCHANGED <<mutex, condition>>
       ELSE /\ cpc' = [cpc EXCEPT ![c] = "s_blocked"]
            /\ mutex' = NoThread
            /\ condition' = condition \cup {c}
  /\ UNCHANGED <<schedulerVars, countJobs, cjob, creg, jpc, jreg, sinkCalls,
                 nextJob, waitReturned, runs>>

\* countJobs++ : load
ScheduleIncRead(c) ==
  /\ cpc[c] = "s_incRead"
  /\ creg' = [creg EXCEPT ![c] = countJobs]
  /\ cpc' = [cpc EXCEPT ![c] = "s_incWrite"]
  /\ UNCHANGED <<schedulerVars, countJobs, mutex, condition, cjob, jpc, jreg,
                 sinkCalls, nextJob, waitReturned, runs>>

\* countJobs++ : store
ScheduleIncWrite(c) ==
  /\ cpc[c] = "s_incWrite"
  /\ countJobs' = creg[c] + 1
  /\ creg' = [creg EXCEPT ![c] = 0]
  /\ cpc' = [cpc EXCEPT ![c] = "s_spawn"]
  /\ UNCHANGED <<schedulerVars, mutex, condition, cjob, jpc, jreg, sinkCalls,
                 nextJob, waitReturned, runs>>

\* std::thread thread{...}: the job thread starts with its sleep ahead of it
ScheduleSpawn(c) ==
  /\ cpc[c] = "s_spawn"
  /\ jpc' = [jpc EXCEPT ![cjob[c]] = "delay"]
  /\ cpc' = [cpc EXCEPT ![c] = "s_return"]
  /\ UNCHANGED <<schedulerVars, countJobs, mutex, condition, cjob, creg, jreg,
                 sinkCalls, nextJob, waitReturned, runs>>

\* thread.join() in place of thread.detach()
ScheduleReturn_Join(c) ==
  /\ cpc[c] = "s_return"
  /\ jpc[cjob[c]] = "done"
  /\ mutex' = NoThread
  /\ cpc' = [cpc EXCEPT ![c] = "idle"]
  /\ cjob' = [cjob EXCEPT ![c] = 0]
  /\ UNCHANGED <<schedulerVars, countJobs, condition, creg, jpc, jreg,
                 sinkCalls, nextJob, waitReturned, runs>>

\* thread.detach(), the lock's destructor, return
ScheduleReturn(c) ==
  /\ cpc[c] = "s_return"
  /\ mutex' = NoThread
  /\ cpc' = [cpc EXCEPT ![c] = "idle"]
  /\ cjob' = [cjob EXCEPT ![c] = 0]
  /\ UNCHANGED <<schedulerVars, countJobs, condition, creg, jpc, jreg,
                 sinkCalls, nextJob, waitReturned, runs>>

\* ---- positions of a caller ----------------------------------------------
InSchedule(c) ==
  cpc[c] \in {"s_lock", "s_check", "s_blocked", "s_incRead", "s_incWrite",
              "s_spawn", "s_return"}

InWait(c) == cpc[c] \in {"w_lock", "w_check", "w_blocked"}

\* ---- Scheduler::wait -----------------------------------------------------
WaitCall(c) ==
  /\ phase = "alive"
  /\ cpc[c] = "idle"
  /\ cpc' = [cpc EXCEPT ![c] = "w_lock"]
  /\ UNCHANGED <<schedulerVars, countJobs, mutex, condition, cjob, creg, jpc,
                 jreg, sinkCalls, nextJob, waitReturned, runs>>

WaitLock(c) ==
  /\ cpc[c] = "w_lock"
  /\ mutex = NoThread
  /\ mutex' = CallerThread(c)
  /\ cpc' = [cpc EXCEPT ![c] = "w_check"]
  /\ UNCHANGED <<schedulerVars, countJobs, condition, cjob, creg, jpc, jreg,
                 sinkCalls, nextJob, waitReturned, runs>>

\* condition.wait(lock, pred): if pred holds, unlock and return; else block
WaitCheck(c) ==
  /\ cpc[c] = "w_check"
  /\ mutex' = NoThread
  /\ IF WaitPredicate
       THEN /\ cpc' = [cpc EXCEPT ![c] = "idle"]
            /\ waitReturned' = (\A d \in Callers : ~InSchedule(d))
            /\ UNCHANGED condition
       ELSE /\ cpc' = [cpc EXCEPT ![c] = "w_blocked"]
            /\ condition' = condition \cup {c}
            /\ UNCHANGED waitReturned
  /\ UNCHANGED <<schedulerVars, countJobs, cjob, creg, jpc, jreg, sinkCalls,
                 nextJob, runs>>

\* ---- std::condition_variable ---------------------------------------------
\* a blocked caller that is woken goes on to re-acquire the mutex
Woken(c) ==
  [cpc EXCEPT ![c] = IF cpc[c] = "s_blocked" THEN "s_lock" ELSE "w_lock"]

\* condition_variable::wait may return without a notification
SpuriousWakeup(c) ==
  /\ c \in condition
  /\ condition' = condition \ {c}
  /\ cpc' = Woken(c)
  /\ UNCHANGED <<schedulerVars, countJobs, mutex, cjob, creg, jpc, jreg,
                 sinkCalls, nextJob, waitReturned, runs>>

\* ---- the job thread (the lambda handed to std::thread) -------------------
\* the job thread locks the mutex for its whole body
JobDelay_UnderLock(j) ==
  /\ jpc[j] = "delay"
  /\ mutex = NoThread
  /\ mutex' = JobThread(j)
  /\ jpc' = [jpc EXCEPT ![j] = "running"]
  /\ runs' = [runs EXCEPT ![j] = @ + 1]
  /\ UNCHANGED <<schedulerVars, countJobs, condition, cpc, cjob, creg,
                 jreg, sinkCalls, nextJob, waitReturned>>

\* sleep_for(n) ends and (*job)() is entered
JobDelay(j) ==
  /\ jpc[j] = "delay"
  /\ jpc' = [jpc EXCEPT ![j] = "running"]
  /\ runs' = [runs EXCEPT ![j] = @ + 1]
  /\ UNCHANGED <<schedulerVars, countJobs, mutex, condition, cpc, cjob, creg,
                 jreg, sinkCalls, nextJob, waitReturned>>

\* the try block without its catch (...) clause
CatchClause_NoCatchAll(o) ==
  IF o = "exception" THEN "catch_exception" ELSE "none"

\* which catch clause of the try block takes an outcome of (*job)()
CatchClause(o) ==
  IF o = "exception" THEN "catch_exception"
  ELSE IF o = "unknown" THEN "catch_all"
  ELSE "none"

\* (*job)() returns or throws; an exception that no catch clause takes
\* leaves the thread function, which ends the process (std::terminate)
JobOperation(j) ==
  /\ jpc[j] = "running"
  /\ phase # "terminated"
  /\ IF Outcome(j) = "ok"
       THEN /\ jpc' = [jpc EXCEPT ![j] = "notify"]
            /\ UNCHANGED phase
       ELSE IF CatchClause(Outcome(j)) # "none"
       THEN /\ jpc' = [jpc EXCEPT ![j] = "catch"]
            /\ UNCHANGED phase
       ELSE /\ jpc' = [jpc EXCEPT ![j] = "escaped"]
            /\ phase' = "terminated"
  /\ UNCHANGED <<maxJobsAllowed, error, countJobs, mutex, condition, cpc, cjob,
                 creg, jreg, sinkCalls, nextJob, waitReturned, runs>>

\* the catch clause reports and runs the operation again
JobCatch_Retry(j) ==
  /\ jpc[j] = "catch"
  /\ sinkCalls' = [sinkCalls EXCEPT ![j] = 1]
  /\ jpc' = [jpc EXCEPT ![j] = IF runs[j] < 2 THEN "delay" ELSE "notify"]
  /\ UNCHANGED <<schedulerVars, countJobs, mutex, condition, cpc, cjob, creg,
                 jreg, nextJob, waitReturned, runs>>

\* this->error(e) or this->error(std::runtime_error("Unknown"))
JobCatch(j) ==
  /\ jpc[j] = "catch"
  /\ sinkCalls' = [sinkCalls EXCEPT ![j] = @ + 1]
  /\ jpc' = [jpc EXCEPT ![j] = "notify"]
  /\ UNCHANGED <<schedulerVars, countJobs, mutex, condition, cpc, cjob, creg,
                 jreg, nextJob, waitReturned, runs>>

\* condition.notify_one(): wakes one blocked caller, if there is one
JobNotify(j) ==
  /\ jpc[j] = "notify"
  /\ jpc' = [jpc EXCEPT ![j] = "decRead"]
  /\ IF condition = {}
       THEN UNCHANGED <<condition, cpc>>
       ELSE \E c \in condition :
              /\ condition' = condition \ {c}
              /\ cpc' = Woken(c)
  /\ UNCHANGED <<schedulerVars, countJobs, mutex, cjob, creg, jreg, sinkCalls,
                 nextJob, waitReturned, runs>>

\* countJobs-- : load
JobDecRead(j) ==
  /\ jpc[j] = "decRead"
  /\ jreg' = [jreg EXCEPT ![j] = countJobs]
  /\ jpc' = [jpc EXCEPT ![j] = "decWrite"]
  /\ UNCHANGED <<schedulerVars, countJobs, mutex, condition, cpc, cjob, creg,
                 sinkCalls, nextJob, waitReturned, runs>>

\* countJobs-- : store; the thread ends
JobDecWrite(j) ==
  /\ jpc[j] = "decWrite"
  /\ countJobs' = jreg[j] - 1
  /\ jreg' = [jreg EXCEPT ![j] = 0]
  /\ jpc' = [jpc EXCEPT ![j] = "done"]
  /\ UNCHANGED <<schedulerVars, mutex, condition, cpc, cjob, creg, sinkCalls,
                 nextJob, waitReturned, runs>>

\* ---- specification -------------------------------------------------------
CallerStep(c) ==
  \/ ScheduleLock(c)
  \/ ScheduleCheck(c)
  \/ ScheduleIncRead(c)
  \/ ScheduleIncWrite(c)
  \/ ScheduleSpawn(c)
  \/ ScheduleReturn(c)
  \/ WaitLock(c)
  \/ WaitCheck(c)

JobStep(j) ==
  \/ JobDelay(j)
  \/ JobOperation(j)
  \/ JobCatch(j)
  \/ JobNotify(j)
  \/ JobDecRead(j)
  \/ JobDecWrite(j)

Next ==
  \/ Construct
  \/ \E c \in Callers : ScheduleCall(c)
  \/ \E c \in Callers : WaitCall(c)
  \/ \E c \in Callers : CallerStep(c)
  \/ \E c \in Callers : SpuriousWakeup(c)
  \/ \E j \in JobIds : JobStep(j)

Spec == Init /\ [][Next]_vars

\* one client thread, as in main(): it calls schedule() and wait() in turn
MainThread == 1

SingleCallerNext ==
  \/ Construct
  \/ ScheduleCall(MainThread)
  \/ WaitCall(MainThread)
  \/ CallerStep(MainThread)
  \/ SpuriousWakeup(MainThread)
  \/ \E j \in JobIds : JobStep(j)

SingleCallerSpec == Init /\ [][SingleCallerNext]_vars

\* Scheduling of the threads: a thread that can take a step takes one, and
\* a thread that asks for the mutex gets it if it is free again and again.
\* Calling schedule() or wait() is the client's choice, and a condition
\* variable owes no spurious wakeup.
Fairness ==
  /\ WF_vars(Construct)
  /\ \A c \in Callers : WF_vars(CallerStep(c))
  /\ \A c \in Callers : SF_vars(ScheduleLock(c) \/ WaitLock(c))
  /\ \A j \in JobIds : WF_vars(JobStep(j))

FairSpec == Spec /\ Fairness

FairSingleCallerSpec == SingleCallerSpec /\ Fairness

TypeOK ==
  /\ phase \in {"constructing", "alive", "failed", "terminated"}
  /\ maxJobsAllowed \in Capacities
  /\ countJobs \in -MaxJobs..MaxJobs
  /\ condition \subseteq Callers
  /\ \A j \in JobIds : sinkCalls[j] \in 0..1
  /\ \A j \in JobIds : runs[j] \in 0..1

\* ---- positions of a job -------------------------------------------------
Submitted(j) == j < nextJob

\* the operation has finished and, if it failed, error() has been called
Completed(j) == jpc[j] \in {"notify", "decRead", "decWrite", "done"}

Running == {j \in JobIds : jpc[j] = "running"}

\* C1: with capacity >= 1 the number of operations started and not yet
\* completed never exceeds the capacity.
C1_RunningWithinCapacity ==
  maxJobsAllowed >= 1 => Cardinality(Running) <= maxJobsAllowed

\* C2: wait() returns, with every schedule() call returned, only when every
\* submitted job has completed.
C2_WaitReturnsAfterAllJobs ==
  [][\A c \in Callers :
       (/\ cpc[c] = "w_check"
        /\ cpc'[c] = "idle"
        /\ \A d \in Callers : ~InSchedule(d))
       => \A j \in JobIds : Submitted(j) => Completed(j)]_vars

\* C6: 0 <= countJobs <= maxJobsAllowed in every reachable state (a negative
\* representative is a counter that has wrapped below zero).
C6_CounterInRange == 0 <= countJobs /\ countJobs <= maxJobsAllowed

\* C7: the load and the store of every countJobs++ and countJobs-- are done
\* by a thread that owns the mutex.
C7_CounterUpdatedUnderMutex ==
  [][/\ \A c \in Callers :
          (cpc[c] \in {"s_incRead", "s_incWrite"} /\ cpc'[c] # cpc[c])
          => mutex = CallerThread(c)
     /\ \A j \in JobIds :
          (jpc[j] \in {"decRead", "decWrite"} /\ jpc'[j] # jpc[j])
          => mutex = JobThread(j)]_vars

\* C10: once wait() has returned, and as long as schedule() is not called,
\* countJobs is zero (so another wait() finds its predicate true).
C10_CounterStaysZeroAfterWait ==
  waitReturned => countJobs = 0

\* C3: a caller inside wait() eventually returns from it.
C3_WaitEventuallyReturns ==
  \A c \in Callers : InWait(c) ~> ~InWait(c)

\* what error() has been called for a job that has completed
Reported(j) == sinkCalls[j] = IF Outcome(j) = "ok" THEN 0 ELSE 1

\* C4: with capacity >= 1 every job passed to schedule() is eventually
\* admitted and completes, with its failure reported exactly once.
C4_EveryJobEventuallyCompletes ==
  \A j \in JobIds :
    (maxJobsAllowed >= 1 /\ phase = "alive" /\ Submitted(j))
      ~> (Completed(j) /\ Reported(j))

\* C5: error() is called once for a job whose operation failed, with a
\* std::exception or with anything else, and never for a job whose
\* operation succeeded; the count depends on that job's outcome alone, and
\* the failure never leaves the job thread.
C5_SinkCalledOncePerFailure ==
  /\ phase # "terminated"
  /\ \A j \in JobIds :
       /\ jpc[j] # "escaped"
       /\ sinkCalls[j] = IF Completed(j) /\ Outcome(j) # "ok" THEN 1 ELSE 0

C5_Witness ==
  \E i, j, k \in JobIds :
    /\ jpc[i] = "done" /\ Outcome(i) = "ok" /\ sinkCalls[i] = 0
    /\ jpc[j] = "done" /\ Outcome(j) = "unknown" /\ sinkCalls[j] = 1
    /\ jpc[k] = "done" /\ Outcome(k) = "exception" /\ sinkCalls[k] = 1

\* C8: with capacity 1 a job is admitted only when countJobs is zero and
\* every job admitted before it has ended, and its operation starts only
\* when every other admitted job has ended with its failure reported and
\* the only slot counted is its own.
C8_SecondJobWaitsForFirst ==
  [][maxJobsAllowed = 1 =>
       /\ \A c \in Callers :
            (cpc[c] = "s_incWrite" /\ cpc'[c] = "s_spawn")
            => /\ countJobs = 0
               /\ \A k \in JobIds : jpc[k] \in {"unborn", "done"}
       /\ \A j \in JobIds :
            (jpc[j] = "delay" /\ jpc'[j] = "running")
            => /\ countJobs = 1
               /\ \A k \in JobIds \ {j} :
                    /\ jpc[k] \in {"unborn", "done"}
                    /\ jpc[k] = "done" => Reported(k)]_vars

C8_Witness ==
  /\ maxJobsAllowed = 1
  /\ jpc[1] = "done"
  /\ jpc[2] = "done" /\ sinkCalls[2] = 1
  /\ jpc[3] = "running"
  /\ countJobs = 1

\* C9: past the admission check a schedule() call can always take its next
\* step, whatever the job thread it spawned is doing.
C9_ScheduleBlocksOnlyForAdmission ==
  \A c \in Callers :
    cpc[c] \in {"s_incRead", "s_incWrite", "s_spawn", "s_return"}
      => ENABLED CallerStep(c)

\* schedule() has returned and the job it submitted is still in its delay
C9_Witness ==
  /\ \A c \in Callers : cpc[c] = "idle"
  /\ nextJob = 2
  /\ jpc[1] = "delay"
  /\ countJobs = 1

\* C11: with a null error sink the constructor ends in the error outcome:
\* the Scheduler is never alive, no caller gets into schedule() or wait(),
\* no job is admitted and no operation runs.
C11_NullSinkNeverAlive ==
  error = "null" =>
    /\ phase \in {"constructing", "failed"}
    /\ \A c \in Callers : cpc[c] = "idle"
    /\ nextJob = 1
    /\ countJobs = 0
    /\ \A j \in JobIds : jpc[j] = "unborn" /\ runs[j] = 0

C11_Witness == error = "null" /\ phase = "failed"

\* the store of a job thread's countJobs-- has been performed
Decremented(j) == jpc[j] = "done"

\* C12: a job thread calls notify_one() only after its countJobs-- has
\* taken effect.
C12_DecrementBeforeNotify ==
  [][\A j \in JobIds :
       (jpc[j] = "notify" /\ jpc'[j] # "notify") => Decremented(j)]_vars

\* one caller is blocked in schedule() and another is blocked in wait()
BothBlocked(c, d) == c # d /\ cpc[c] = "s_blocked" /\ cpc[d] = "w_blocked"

\* a schedule() call that has passed its admission wait, or has returned
Admitted(c) == cpc[c] \notin {"s_lock", "s_check", "s_blocked"}

\* C13: when one caller is blocked in schedule() and another in wait() on
\* the one condition variable, the schedule() call is eventually admitted
\* and the wait() call eventually returns.
C13_SharedConditionLosesNoWakeup ==
  \A c, d \in Callers :
    /\ BothBlocked(c, d) ~> Admitted(c)
    /\ BothBlocked(c, d) ~> ~InWait(d)

\* the jobs whose countJobs++ has been stored and whose countJobs-- has not
InFlight ==
  {j \in JobIds : jpc[j] \in {"delay", "running", "catch", "escaped",
                               "notify", "decRead", "decWrite"}}
    \cup {cjob[c] : c \in {d \in Callers : cpc[d] = "s_spawn"}}

\* C14: countJobs equals the number of jobs admitted and not yet
\* decremented: no increment or decrement is lost or applied twice.
C14_CounterEqualsInFlight == countJobs = Cardinality(InFlight)

\* C15: a job whose operation failed goes from the report of its failure to
\* notify_one() and countJobs--, and that decrement takes one off the
\* counter, so that its slot is free again.
C15_FailedJobReleasesSlot ==
  [][\A j \in JobIds :
       Outcome(j) # "ok" =>
         /\ (jpc[j] = "catch" /\ jpc'[j] # "catch") => jpc'[j] = "notify"
         /\ (jpc[j] = "decWrite" /\ jpc'[j] = "done")
              => countJobs' = countJobs - 1]_vars

\* the jobs that are in their delay or in their operation
Occupying == {j \in JobIds : jpc[j] \in {"delay", "running"}}

\* C16: a job's delay begins only after its countJobs++ has been stored, its
\* operation starts only from its delay, its countJobs-- comes only after
\* its operation, and every job in its delay or operation holds one of the
\* slots that countJobs counts.
C16_AdmissionDelayOperationDecrement ==
  /\ [][\A j \in JobIds :
          /\ (jpc[j] # "delay" /\ jpc'[j] = "delay")
               => /\ jpc[j] = "unborn"
                  /\ \E c \in Callers : cpc[c] = "s_spawn" /\ cjob[c] = j
          /\ (jpc[j] # "running" /\ jpc'[j] = "running") => jpc[j] = "delay"
          /\ (jpc[j] # "decRead" /\ jpc'[j] = "decRead")
               => jpc[j] = "notify" /\ runs[j] = 1]_vars
  /\ [](~ULess(countJobs, Cardinality(Occupying)))

\* C17: with capacity 0 no schedule() call gets past its admission wait, no
\* job is admitted or run, countJobs stays 0, and wait() never blocks.
C17_ZeroCapacityAdmitsNothing ==
  maxJobsAllowed = 0 =>
    /\ countJobs = 0
    /\ \A c \in Callers :
         cpc[c] \in {"idle", "s_lock", "s_check", "s_blocked",
                     "w_lock", "w_check"}
    /\ \A j \in JobIds : jpc[j] = "unborn" /\ runs[j] = 0

\* a caller is blocked in schedule() while another finds wait()'s predicate
\* true
C17_Witness ==
  /\ maxJobsAllowed = 0
  /\ \E c, d \in Callers :
       cpc[c] = "s_blocked" /\ cpc[d] = "w_check" /\ WaitPredicate

\* C18: the operation of an admitted job is entered exactly once: not
\* before its delay has ended, once from then on, and a job thread in its
\* delay can always go on to its operation.
C18_OperationRunsExactlyOnce ==
  \A j \in JobIds :
    /\ jpc[j] \in {"unborn", "delay"} => runs[j] = 0
    /\ jpc[j] \notin {"unborn", "delay"} => runs[j] = 1
    /\ jpc[j] = "delay" => ENABLED JobDelay(j)

\* a job whose operation failed has ended having been run once
C18_Witness ==
  \E j \in JobIds :
    /\ Outcome(j) # "ok"
    /\ jpc[j] = "done"
    /\ runs[j] = 1
    /\ sinkCalls[j] = 1

\* C19: a job thread in its delay or operation does not own the mutex and
\* can take its next step whoever owns it, so as many operations as the
\* capacity can run at the same time.
C19_JobsRunWithoutTheLock ==
  \A j \in JobIds :
    jpc[j] \in {"delay", "running"}
      => mutex # JobThread(j) /\ ENABLED JobStep(j)

\* with capacity k >= 2, k operations are running at once
C19_Witness ==
  /\ maxJobsAllowed >= 2
  /\ Cardinality(Running) = maxJobsAllowed
  /\ \E c \in Callers : mutex = CallerThread(c)

====
